---- MODULE Spec2Model ----
(***************************************************************************)
(* Model of the text-to-speech orchestration of RedditVideoMakerBot:       *)
(* TTSEngine.run / split_post / call_tts (src/TTS/engine_wrapper.py) and   *)
(* the audio-clip gathering of make_final_video                            *)
(* (src/video_creation/final_video.py).                                    *)
(*                                                                         *)
(* Durations are integers (a fixed time unit); the thread's texts are      *)
(* abstracted to what the code reads from them: whether the body is empty  *)
(* after sanitising, whether a comment is longer than max_chars, how many  *)
(* pieces the splitting regex yields and which of them sanitise to an      *)
(* empty string.  The outcome of every synthesis (usable audio of some      *)
(* duration, or none) is an input drawn when the call is made; an          *)
(* exception raised by tts_module.run itself ends the run and is left out. *)
(*                                                                         *)
(* The choice of the thread, get_subreddit_undone (src/utils/subreddit.py),*)
(* is a second state machine with its own specification, SpecSubreddit; a  *)
(* listing of submissions is read one submission at a time.                *)
(***************************************************************************)
EXTENDS Integers, Sequences, FiniteSets, TLC

\* ------------------------------------------------------------- bounds
MaxUnits    == 4      \* the comments hold at most MaxUnits pieces of text in all
MaxDur      == 2      \* a synthesized clip lasts 1..MaxDur time units
MaxBudget   == 3      \* max_length is 1..MaxBudget
MaxListing  == 2      \* a listing of submissions yields at most MaxListing submissions
MaxIds      == 2      \* submission ids are 1..MaxIds
MaxNumComments == 1   \* num_comments and min_comments are 0..MaxNumComments

\* idx = None before the first iteration of the comment loop
None == -2

VARIABLES
    pc,                      \* position in run / split_post
    comments,                \* len(self.reddit_object["comments"])
    thread_post,             \* process_text(thread_post) != ""
    storymode,               \* settings.config["settings"]["storymode"]
    max_length,              \* self.max_length
    length,                  \* self.length
    last_clip_length,        \* self.last_clip_length
    racked_up_split_length,  \* self.racked_up_split_length
    files,                   \* the mp3 directory self.path: filename -> artifact
    it,                      \* comments consumed from enumerate(...)
    idx,                     \* loop variable of run, returned with length
    pieces,                  \* split_post: len(split_text)
    idy,                     \* split_post: loop variable over split_text
    offset,                  \* split_post: pieces skipped as empty
    split_files,             \* split_post: filenames of the opened chunk clips
    unit,                    \* history: the comment the loop handled last (or is handling):
                             \*   direct or split, how it ended, self.length before and after
                             \*   it, the durations call_tts recorded for it, whether split_post
                             \*   handed call_tts a piece that is empty or only whitespace,
                             \*   self.last_clip_length before it
    lengths_before,          \* history: total duration of title.mp3, posttext.mp3 and {i}.mp3, i < idx
    recorded_total,          \* history: sum of all clip durations call_tts recorded
    rollbacks,               \* history: number of subtractions from self.length
    units,                   \* history: pieces of comment text handled so far
    stop_at,                 \* history: the comment index at which the budget stop fired, or None
    narrated,                \* history: run called call_tts("posttext", ...)
    direct_failed,           \* history: call_tts returned False for a comment synthesized directly
    spc,                     \* position in get_subreddit_undone
    done_videos,             \* the ids in video_creation/data/videos.json
    min_comments,            \* settings.config["reddit"]["thread"]["min_comments"]
    times_checked,           \* argument of the current call of get_subreddit_undone
    time_filter,             \* the time filter of the listing being read ("" for the caller's)
    seen,                    \* submissions read from the current listing
    submission               \* loop variable of get_subreddit_undone

vars == <<pc, comments, thread_post, storymode, max_length, length, last_clip_length,
          racked_up_split_length, files, it, idx, pieces, idy, offset, split_files,
          unit, lengths_before, recorded_total, rollbacks, units, stop_at, narrated,
          direct_failed, spc, done_videos, min_comments, times_checked, time_filter, seen,
          submission>>

split_locals == <<pieces, idy, offset, split_files>>
\* the search for the thread, over before the text-to-speech run
search == <<spc, done_videos, min_comments, times_checked, time_filter, seen, submission>>
config == <<comments, thread_post, storymode, max_length, search>>
history == <<unit, lengths_before, recorded_total, rollbacks, units, stop_at, narrated,
             direct_failed>>

\* ------------------------------------------------------------- helpers
RECURSIVE Sum(_)
Sum(ds) == IF ds = <<>> THEN 0 ELSE Head(ds) + Sum(Tail(ds))

\* what tts_module.run may leave at the path it is given: no usable audio
\* (AudioFileClip raises), or audio of some duration.  The directory is
\* modelled by the usable artifacts it holds.
Outcomes ==
    {[usable |-> FALSE, duration |-> 0]}
    \cup {[usable |-> TRUE, duration |-> d] : d \in 1..MaxDur}

Write(fs, name, art) == [x \in DOMAIN fs \cup {name} |-> IF x = name THEN art ELSE fs[x]]
Unlink(fs, names)    == [x \in DOMAIN fs \ names |-> fs[x]]

\* AudioFileClip(path) succeeds
Readable(fs, name) == name \in DOMAIN fs

\* storage keys: f"{idx}", f"{idx}-{n}.part"
CommentFile(i) == ToString(i)
PartFile(i, n) == ToString(i) \o "-" \o ToString(n) \o ".part"

\* self.tts_module.run(text, filepath=...): an artifact records the
\* synthesized clips it is made of
tts_run(fs, filename, out) ==
    IF out.usable THEN Write(fs, filename, [segments |-> <<filename>>]) ELSE fs

\* call_tts with a bug: a chunk's duration is racked up but not added to
\* self.length
call_tts_chunk_not_added(filename, out, split) ==
    LET fs == tts_run(files, filename, out) IN
    IF Readable(fs, filename)
    THEN [files |-> fs,
          last_clip_length |-> out.duration,
          length |-> IF split THEN length ELSE length + out.duration,
          racked_up_split_length |->
              IF split THEN racked_up_split_length + out.duration
              ELSE racked_up_split_length,
          ret |-> TRUE]
    ELSE [files |-> fs,
          last_clip_length |-> last_clip_length,
          length |-> length,
          racked_up_split_length |-> racked_up_split_length,
          ret |-> FALSE]

\* TTSEngine.call_tts: the fields of self it leaves, the directory, and its
\* return value; out.duration is the clip.duration of the file just written
call_tts(filename, out, split) ==
    LET fs == tts_run(files, filename, out) IN
    IF Readable(fs, filename)
    THEN [files |-> fs,
          last_clip_length |-> out.duration,
          length |-> length + out.duration,
          racked_up_split_length |->
              IF split THEN racked_up_split_length + out.duration
              ELSE racked_up_split_length,
          ret |-> TRUE]
    ELSE [files |-> fs,
          last_clip_length |-> last_clip_length,
          length |-> length,
          racked_up_split_length |-> racked_up_split_length,
          ret |-> FALSE]

\* the state after a call of call_tts that returned r
Called(r, out) ==
    /\ files' = r.files
    /\ last_clip_length' = r.last_clip_length
    /\ racked_up_split_length' = r.racked_up_split_length
    /\ recorded_total' = IF r.ret THEN recorded_total + out.duration ELSE recorded_total

\* the duration of {idx}.mp3 as the comment handled last left it
UnitAudio == IF unit.status = "ok" THEN Sum(unit.durs) ELSE 0

\* ------------------------------------------------------------- Init
\* the search has returned a submission
SearchOver ==
    /\ spc = "returned"
    /\ done_videos = {}
    /\ min_comments = 0
    /\ times_checked = 0
    /\ time_filter = ""
    /\ seen = 1
    /\ submission = [id |-> 1, over_18 |-> FALSE, stickied |-> FALSE, num_comments |-> 1]

\* TTSEngine.__init__; the directory may hold a posttext.mp3 of an earlier run
Init ==
    /\ SearchOver
    /\ pc = "start"
    /\ comments \in 0..MaxUnits
    /\ thread_post \in BOOLEAN
    /\ storymode \in BOOLEAN
    /\ max_length \in 1..MaxBudget
    /\ length = 0
    /\ last_clip_length = 0
    /\ racked_up_split_length = 0
    /\ files \in {<<>>, [x \in {"posttext"} |-> [segments |-> <<"stale">>]]}
    /\ it = 0
    /\ idx = None
    /\ pieces = 0 /\ idy = 0 /\ offset = 0 /\ split_files = <<>>
    /\ unit = [kind |-> "none", status |-> "none", before |-> 0, after |-> 0, durs |-> <<>>,
               blank |-> FALSE, last |-> 0]
    /\ lengths_before = 0 /\ recorded_total = 0 /\ rollbacks = 0 /\ units = 0 /\ stop_at = None
    /\ narrated = FALSE
    /\ direct_failed = FALSE

\* ------------------------------------------------------------- run
\* run with a bug: a posttext.mp3 left in the directory is not removed
unlink_posttext_missing(fs) == fs

\* run, lines 55-58: Path(f"{self.path}/posttext.mp3").unlink(), OSError passed over
unlink_posttext(fs) == Unlink(fs, {"posttext"})

\* run, lines 52-58: mkdir, unlink a posttext.mp3 left in the directory
Start ==
    /\ pc = "start"
    /\ files' = unlink_posttext(files)
    /\ pc' = "title"
    /\ UNCHANGED <<config, length, last_clip_length, racked_up_split_length, it, idx,
                   split_locals, history>>

\* run, line 62: call_tts("title", ...), its return value ignored
Title ==
    /\ pc = "title"
    /\ \E out \in Outcomes :
         LET r == call_tts("title", out, FALSE) IN
         /\ Called(r, out)
         /\ length' = r.length
         /\ lengths_before' = IF r.ret THEN out.duration ELSE 0
    /\ pc' = "body"
    /\ UNCHANGED <<config, it, idx, split_locals, unit, rollbacks, units, stop_at, narrated,
                   direct_failed>>

\* run, lines 63-67: the body is narrated if it is non-empty and story mode is on
Body ==
    /\ pc = "body"
    /\ IF thread_post /\ storymode = TRUE
       THEN \E out \in Outcomes :
              LET r == call_tts("posttext", out, FALSE) IN
              /\ Called(r, out)
              /\ length' = r.length
              /\ lengths_before' = lengths_before + (IF r.ret THEN out.duration ELSE 0)
              /\ narrated' = TRUE
       ELSE UNCHANGED <<narrated, files, last_clip_length, racked_up_split_length, recorded_total,
                        length, lengths_before>>
    /\ idx' = None
    /\ pc' = "loop"
    /\ UNCHANGED <<config, it, split_locals, unit, rollbacks, units, stop_at, direct_failed>>

\* run, lines 68 and 81-82: enumerate is exhausted, run returns (self.length, idx)
Exhausted ==
    /\ pc = "loop"
    /\ it = comments
    /\ pc' = "done"
    /\ UNCHANGED <<config, length, last_clip_length, racked_up_split_length, files, it, idx,
                   split_locals, history>>

\* the budget stop with a bug: idx is not decremented
budget_stop_no_decrement(i) == [length |-> length - last_clip_length, idx |-> i]

\* run, lines 70-73: self.length and idx as the budget stop on entry to comment i leaves them
budget_stop(i) == [length |-> length - last_clip_length, idx |-> i - 1]

\* run, lines 68-73 and 81-82: the budget stop on entry to comment `it`
BudgetStop ==
    /\ pc = "loop"
    /\ it < comments
    /\ length > max_length
    /\ length' = budget_stop(it).length
    /\ idx' = budget_stop(it).idx
    /\ it' = it + 1
    /\ pc' = "done"
    /\ rollbacks' = rollbacks + 1
    /\ stop_at' = it
    /\ UNCHANGED <<config, last_clip_length, racked_up_split_length, files, split_locals,
                   unit, lengths_before, recorded_total, units, narrated, direct_failed>>

\* run, lines 68-70 and 78-79: a comment of at most max_chars characters
DirectComment ==
    /\ pc = "loop"
    /\ it < comments
    /\ ~(length > max_length)
    /\ \E out \in Outcomes :
         LET r == call_tts(CommentFile(it), out, FALSE) IN
         /\ Called(r, out)
         /\ length' = r.length
         /\ unit' = [kind |-> "direct", status |-> IF r.ret THEN "ok" ELSE "failed",
                     before |-> length, after |-> r.length,
                     durs |-> IF r.ret THEN <<out.duration>> ELSE <<>>,
                     blank |-> FALSE, last |-> last_clip_length]
         /\ direct_failed' = (direct_failed \/ ~r.ret)
    /\ idx' = it
    /\ it' = it + 1
    /\ lengths_before' = lengths_before + UnitAudio
    /\ units' = units + 1
    /\ UNCHANGED <<pc, config, split_locals, rollbacks, stop_at, narrated>>

\* run, lines 68-70 and 74-77, split_post, lines 84-92: a comment longer than
\* max_chars is cut into pieces
SplitBegin ==
    /\ pc = "loop"
    /\ it < comments
    /\ ~(length > max_length)
    /\ idx' = it
    /\ it' = it + 1
    /\ \E n \in 1..(MaxUnits - units - (comments - it - 1)) :
         /\ pieces' = n
         /\ units' = units + n
    /\ idy' = 0
    /\ offset' = 0
    /\ split_files' = <<>>
    /\ pc' = "split"
    /\ unit' = [kind |-> "split", status |-> "running", before |-> length,
                after |-> length, durs |-> <<>>, blank |-> FALSE, last |-> last_clip_length]
    /\ lengths_before' = lengths_before + UnitAudio
    /\ UNCHANGED <<config, length, last_clip_length, racked_up_split_length, files,
                   recorded_total, rollbacks, stop_at, narrated, direct_failed>>

\* split_post, line 95: what process_text(text_cut) may be: empty, only
\* whitespace, or text to speak
PieceTexts == {"", " ", "text"}

\* str.isspace
isspace(t) == t = " "

\* split_post, line 96: not new_text or new_text.isspace()
skipped(new_text) == new_text = "" \/ isspace(new_text)

\* split_post, lines 93-98: a piece that sanitises to nothing is skipped
ChunkDropped ==
    /\ pc = "split"
    /\ idy < pieces
    /\ \E new_text \in PieceTexts : skipped(new_text)
    /\ offset' = offset + 1
    /\ idy' = idy + 1
    /\ UNCHANGED <<pc, config, length, last_clip_length, racked_up_split_length, files,
                   it, idx, pieces, split_files, history>>

\* split_post, line 102: self.length after the failure branch
split_failed(len) == len - racked_up_split_length

\* the chunk number with a bug: the skipped pieces are not discounted
part_number_no_offset(y, off) == y

\* split_post, lines 100 and 105: the number in the chunk's filename
part_number(y, off) == y - off

\* split_post, lines 93-105: a piece is synthesized as f"{idx}-{idy - offset}.part"
ChunkSynth ==
    /\ pc = "split"
    /\ idy < pieces
    /\ \E out \in Outcomes, new_text \in PieceTexts :
         LET name == PartFile(idx, part_number(idy, offset))
             r == call_tts(name, out, TRUE)
             said == unit.blank \/ new_text = "" \/ isspace(new_text) IN
         /\ ~skipped(new_text)
         /\ Called(r, out)
         /\ IF r.ret
            THEN /\ length' = r.length
                 /\ split_files' = Append(split_files, name)
                 /\ idy' = idy + 1
                 /\ unit' = [unit EXCEPT !.durs = Append(@, out.duration), !.after = r.length,
                                         !.blank = said]
                 /\ UNCHANGED <<pc, rollbacks>>
            ELSE /\ length' = split_failed(r.length)
                 /\ pc' = "loop"
                 /\ unit' = [unit EXCEPT !.status = "failed", !.after = length',
                                         !.blank = said]
                 /\ rollbacks' = rollbacks + 1
                 /\ UNCHANGED <<split_files, idy>>
    /\ UNCHANGED <<config, it, idx, pieces, offset, lengths_before, units, stop_at, narrated,
                   direct_failed>>

RECURSIVE concatenate_audioclips(_, _)
\* concatenate_audioclips(split_files): the clips' audio one after the other
concatenate_audioclips(fs, names) ==
    IF names = <<>> THEN <<>>
    ELSE fs[Head(names)].segments \o concatenate_audioclips(fs, Tail(names))

\* the end of split_post with a bug: the last chunk file is not unlinked
split_written_keeps_part(fs, i, names) ==
    Unlink(Write(fs, CommentFile(i),
                 [segments |-> concatenate_audioclips(fs, names)]),
           {names[n] : n \in 1..(Len(names) - 1)})

\* split_post, lines 107-114: write f"{idx}.mp3", then unlink every chunk file
split_written(fs, i, names) ==
    Unlink(Write(fs, CommentFile(i),
                 [segments |-> concatenate_audioclips(fs, names)]),
           {names[n] : n \in 1..Len(names)})

\* split_post, lines 93 and 106-114: every piece is done; with no clip to
\* concatenate, CompositeAudioClip raises out of split_post and run
SplitConcat ==
    /\ pc = "split"
    /\ idy = pieces
    /\ racked_up_split_length' = 0
    /\ IF split_files = <<>>
       THEN /\ pc' = "crashed"
            /\ unit' = [unit EXCEPT !.status = "crashed"]
            /\ UNCHANGED files
       ELSE /\ files' = split_written(files, idx, split_files)
            /\ unit' = [unit EXCEPT !.status = "ok"]
            /\ pc' = "loop"
    /\ UNCHANGED <<config, length, last_clip_length, it, idx, split_locals,
                   lengths_before, recorded_total, rollbacks, units, stop_at, narrated,
                   direct_failed>>

Next ==
    \/ Start
    \/ Title
    \/ Body
    \/ Exhausted
    \/ BudgetStop
    \/ DirectComment
    \/ SplitBegin
    \/ ChunkDropped
    \/ ChunkSynth
    \/ SplitConcat

Spec == Init /\ [][Next]_vars

TypeOK ==
    /\ pc \in {"start", "title", "body", "loop", "split", "done", "crashed"}
    /\ it \in 0..comments
    /\ idx \in {None} \cup (-1..comments)
    /\ offset \in 0..idy /\ idy \in 0..pieces
    /\ units \in 0..MaxUnits

\* ------------------------------------------------------------- get_subreddit_undone
\* get_subreddit_undone, lines 44-51
VALID_TIME_FILTERS == <<"day", "hour", "month", "week", "year", "all">>

\* what a listing may yield: id, over_18, stickied, num_comments
Submissions ==
    [id : 1..MaxIds, over_18 : BOOLEAN, stickied : BOOLEAN, num_comments : 0..MaxNumComments]

\* already_done, lines 65-79
already_done(videos, s) == \E video \in videos : video = s.id

\* get_subreddit_undone, lines 25-41: the tests that make the loop continue
passed_over(s) ==
    \/ already_done(done_videos, s)
    \/ s.over_18
    \/ s.stickied
    \/ s.num_comments <= min_comments

\* the text-to-speech engine is not constructed yet and takes no step
NoRun ==
    /\ pc = "start"
    /\ comments = 0 /\ thread_post = FALSE /\ storymode = FALSE /\ max_length = 1
    /\ length = 0 /\ last_clip_length = 0 /\ racked_up_split_length = 0
    /\ files = <<>>
    /\ it = 0 /\ idx = None
    /\ pieces = 0 /\ idy = 0 /\ offset = 0 /\ split_files = <<>>
    /\ unit = [kind |-> "none", status |-> "none", before |-> 0, after |-> 0, durs |-> <<>>,
               blank |-> FALSE, last |-> 0]
    /\ lengths_before = 0 /\ recorded_total = 0 /\ rollbacks = 0 /\ units = 0 /\ stop_at = None
    /\ narrated = FALSE
    /\ direct_failed = FALSE

run_vars == <<pc, comments, thread_post, storymode, max_length, length, last_clip_length,
              racked_up_split_length, files, it, idx, split_locals, history>>

\* the first call get_subreddit_undone(submissions, subreddit), lines 8-23:
\* videos.json is read, the caller's listing is about to be iterated
InitSubreddit ==
    /\ NoRun
    /\ spc = "for"
    /\ done_videos \in SUBSET (1..MaxIds)
    /\ min_comments \in 0..MaxNumComments
    /\ times_checked = 0
    /\ time_filter = ""
    /\ seen = 0
    /\ submission = [id |-> 1, over_18 |-> FALSE, stickied |-> FALSE, num_comments |-> 0]

\* lines 24-41: the listing yields a submission that one of the tests passes over
Continue ==
    /\ spc = "for"
    /\ seen < MaxListing
    /\ \E s \in Submissions :
         /\ passed_over(s)
         /\ submission' = s
    /\ seen' = seen + 1
    /\ UNCHANGED <<spc, done_videos, min_comments, times_checked, time_filter, run_vars>>

\* lines 24-42: the listing yields a submission no test passes over: return submission
Return ==
    /\ spc = "for"
    /\ seen < MaxListing
    /\ \E s \in Submissions :
         /\ ~passed_over(s)
         /\ submission' = s
    /\ seen' = seen + 1
    /\ spc' = "returned"
    /\ UNCHANGED <<done_videos, min_comments, times_checked, time_filter, run_vars>>

\* line 52
next_index(checked) == checked + 1

\* lines 43-62: the listing is exhausted; index = times_checked + 1, the test
\* of line 53 only prints, and the recursive call reads the listing of
\* VALID_TIME_FILTERS[index] with times_checked = index
Recurse ==
    /\ spc = "for"
    /\ next_index(times_checked) < Len(VALID_TIME_FILTERS)
    /\ time_filter' = VALID_TIME_FILTERS[next_index(times_checked) + 1]
    /\ times_checked' = next_index(times_checked)
    /\ seen' = 0
    /\ UNCHANGED <<spc, done_videos, min_comments, submission, run_vars>>

\* lines 43-57: the listing is exhausted and index is len(VALID_TIME_FILTERS)
\* or more: after the print of line 54, VALID_TIME_FILTERS[index] raises
\* IndexError
IndexError ==
    /\ spc = "for"
    /\ ~(next_index(times_checked) < Len(VALID_TIME_FILTERS))
    /\ spc' = "IndexError"
    /\ UNCHANGED <<done_videos, min_comments, times_checked, time_filter, seen, submission,
                   run_vars>>

NextSubreddit ==
    \/ Continue
    \/ Return
    \/ Recurse
    \/ IndexError

SpecSubreddit == InitSubreddit /\ [][NextSubreddit]_vars

\* ------------------------------------------------------------- compositor
\* make_final_video, lines 94-95: the audio clips gathered for number_of_clips = n
audio_clips(n) ==
    <<"title">> \o (IF n > 0 THEN [i \in 1..n |-> CommentFile(i - 1)] ELSE <<>>)

\* the run has returned (self.length, idx)
Returned == pc = "done"

\* the index of the comment whose iteration ran last, once run has returned
LastHandled == IF stop_at = None THEN it - 1 ELSE stop_at - 1

\* ------------------------------------------------------------- claims

\* C1: at the end of run the returned total duration equals the sum of the
\* durations of the items whose artifacts are handed to the compositor: the
\* title, the narrated body and the comments {i}.mp3 for i in range(idx).
C1_TotalIsSumOfManifest ==
    (Returned /\ idx # None) => length = lengths_before

\* C2: whenever at least one comment is part of the result (the artifact of
\* a comment in range(idx) exists), the returned total duration does not
\* exceed max_length.
C2_TotalWithinBudget ==
    (Returned /\ idx # None /\ \E i \in 0..(idx - 1) : CommentFile(i) \in DOMAIN files)
        => length <= max_length

\* C3: if the running total first exceeds the budget while comment m is
\* handled (any m, the last comment of the thread included), the final total
\* equals the total accumulated through comment m-1 and the result is made of
\* comments 0..m-1.
C3_TerminationCorrectness ==
    (Returned /\ unit.kind # "none" /\ unit.before <= max_length /\ unit.after > max_length)
        => /\ length = unit.before
           /\ audio_clips(idx) = <<"title">> \o [i \in 1..LastHandled |-> CommentFile(i - 1)]

C5_FailureIsolation ==
    (unit.kind = "split" /\ unit.status = "failed")
        => (unit.after = unit.before /\ CommentFile(idx) \notin DOMAIN files)

\* C6: after a chunked comment is committed, last_clip_length equals the sum
\* of the durations of all its chunks.
C6_LastClipIsWholeComment ==
    (pc = "loop" /\ unit.kind = "split" /\ unit.status = "ok")
        => last_clip_length = Sum(unit.durs)

\* C7: self.length is never negative.
C7_LengthNonNegative == length >= 0

\* C8: racked_up_split_length is 0 whenever split_post begins a comment.
C8_SpeculativeTotalReset ==
    (pc = "split" /\ idy = 0) => racked_up_split_length = 0

\* C9: as long as nothing was rolled back, self.length is the sum of all
\* the clip durations recorded.
C9_DurationAdditivity ==
    rollbacks = 0 => length = recorded_total

C9_Witness ==
    /\ Returned /\ rollbacks = 0
    /\ unit.kind = "split" /\ unit.status = "ok" /\ Len(unit.durs) >= 2
    /\ "0" \in DOMAIN files /\ files["0"].segments = <<"0">>
    /\ length = recorded_total /\ length > Sum(unit.durs)

\* C10: when every chunk of chunked comment idx is synthesized, then after
\* split_post returns {idx}.mp3 exists and is made of the chunks in order, no
\* chunk file of the comment is left, and self.length grew by the sum of the
\* chunk durations.
C10_SplitCommitted ==
    (pc \in {"loop", "done"} /\ unit.kind = "split" /\ unit.status = "ok")
        => /\ CommentFile(idx) \in DOMAIN files
           /\ files[CommentFile(idx)].segments
                = [n \in 1..Len(unit.durs) |-> PartFile(idx, n - 1)]
           /\ \A n \in 0..MaxUnits : PartFile(idx, n) \notin DOMAIN files
           /\ unit.after - unit.before = Sum(unit.durs)

C10_Witness ==
    /\ pc = "loop" /\ unit.kind = "split" /\ unit.status = "ok"
    /\ Len(unit.durs) >= 2 /\ offset >= 1
    /\ files[CommentFile(idx)].segments = <<PartFile(idx, 0), PartFile(idx, 1)>>

\* C11: when a chunk of a chunked comment fails, neither {idx}.mp3 nor any
\* chunk file of the comment is left in the directory, and the loop goes on
\* (the run does not stop at the budget test because of it).
C11_NoPartialArtifact ==
    (unit.kind = "split" /\ unit.status = "failed")
        => /\ CommentFile(idx) \notin DOMAIN files
           /\ \A n \in 0..MaxUnits : PartFile(idx, n) \notin DOMAIN files
           /\ pc \in {"loop", "done"}
           /\ stop_at = None

\* C12: if the budget stop fires on entry to the first comment, run returns
\* a 'none' index (no comment is kept) and the returned total is the sum of
\* the title and body durations.
C12_TitleOverBudget ==
    (Returned /\ stop_at = 0)
        => /\ idx \in {None, -1}
           /\ length = lengths_before

\* C13: the body is synthesized iff its sanitised text is non-empty and story
\* mode is on, and from the unlink on, so also when run ends, a posttext.mp3
\* is in the directory only if this run narrated the body, holding that
\* narration (a file from before the run is gone).
C13_BodyNarration ==
    /\ pc \notin {"start", "title", "body"} => (narrated <=> (thread_post /\ storymode))
    /\ pc # "start" =>
         ("posttext" \in DOMAIN files
             => narrated /\ files["posttext"].segments = <<"posttext">>)

\* a run that did not narrate a non-empty body has returned
C13_Witness ==
    Returned /\ thread_post /\ ~storymode /\ ~narrated /\ "posttext" \notin DOMAIN files

\* C14: in split_post no piece that is empty or only whitespace is handed to
\* the synthesizer, and the chunk files opened so far are numbered 0..k-1 in
\* the order of the pieces, however many pieces were skipped before or
\* between them.
C14_ChunkKeysGapFree ==
    /\ unit.kind = "split" => ~unit.blank
    /\ pc = "split" =>
         /\ Len(split_files) = idy - offset
         /\ split_files = [n \in 1..Len(split_files) |-> PartFile(idx, n - 1)]
         /\ \A n \in 1..Len(split_files) : Readable(files, split_files[n])

\* two chunks are synthesized and a piece was skipped
C14_Witness ==
    pc = "split" /\ offset >= 1 /\ Len(split_files) >= 2

\* C15: the comments are visited in thread order and the budget test is made
\* only on entry to a comment's iteration, before the comment is synthesized.
\* When it fires on entry to comment j, the comments before j have been
\* visited in order and nothing of comment j or of a later comment has been
\* synthesized, the run has returned, and the rollback has taken the previous
\* comment's contribution out of the total.
C15_StopOnEntry ==
    (stop_at # None)
        => /\ Returned
           /\ it = stop_at + 1
           /\ \A i \in stop_at..comments :
                /\ CommentFile(i) \notin DOMAIN files
                /\ \A n \in 0..MaxUnits : PartFile(i, n) \notin DOMAIN files
           /\ stop_at >= 1 => length = unit.before

\* C16: every run terminates in the returned state (by exhausting the
\* comments or by the budget stop): as long as run has not returned, it has a
\* next step.
C16_RunReturns ==
    Returned \/ ENABLED Next

\* C17: a failed direct synthesis of a comment skips the comment: the failed
\* call leaves self.length and self.last_clip_length as they were and writes
\* no {idx}.mp3, the loop goes on with the next comment, and a budget stop
\* later in that run subtracts the duration of the item accepted last (the
\* whole of the comment before the stop).
C17_DirectFailureSkips ==
    /\ (unit.kind = "direct" /\ unit.status = "failed" /\ stop_at = None)
          => /\ length = unit.before
             /\ last_clip_length = unit.last
             /\ CommentFile(idx) \notin DOMAIN files
             /\ pc \in {"loop", "done"}
    /\ (direct_failed /\ stop_at # None)
          => /\ unit.status = "ok"
             /\ length = unit.after - UnitAudio

\* C18: when run returns the count n = idx, title.mp3 and {i}.mp3 for every
\* i in range(n), the clips make_final_video opens, are in the directory,
\* also in runs where the synthesis of some comment failed.
C18_ClipsExist ==
    (Returned /\ idx # None)
        => \A k \in 1..Len(audio_clips(idx)) : Readable(files, audio_clips(idx)[k])

\* C19: split_post reaches the concatenation with at least one synthesized
\* chunk; for a comment whose pieces are all skipped no concatenation is
\* attempted, self.length is unchanged and the run goes on to the next
\* comment.
C19_NoEmptyConcatenation ==
    /\ (pc = "split" /\ idy = pieces) => split_files # <<>>
    /\ pc # "crashed"
    /\ (unit.kind = "split" /\ unit.status # "running" /\ unit.durs = <<>>
          /\ offset = pieces)
          => length = unit.before

\* C20: a submission that get_subreddit_undone returns is not already done,
\* not over_18, not stickied and has more than min_comments comments; every
\* recursive call reads the listing of the next time filter; and
\* VALID_TIME_FILTERS is never indexed at or beyond its length: after the
\* last filter the search ends without a further call.
C20_SearchEnds ==
    /\ spc = "returned" =>
         /\ ~already_done(done_videos, submission)
         /\ ~submission.over_18
         /\ ~submission.stickied
         /\ submission.num_comments > min_comments
    /\ times_checked >= 1 =>
         /\ times_checked < Len(VALID_TIME_FILTERS)
         /\ time_filter = VALID_TIME_FILTERS[times_checked + 1]
    /\ spc # "IndexError"

====
